---- MODULE Spec2Model ----
(***************************************************************************)
(* A model of the mission control loop of AI_AGENT.py: AIAgent.call_llm    *)
(* (retry, backoff and fence stripping), AIAgent.parse_llm_response,       *)
(* AIAgent.execute_command, AIAgent.run_mission and                        *)
(* AIAgent.generate_report.                                                *)
(*                                                                         *)
(* Text.  A Python str is a sequence of chunks.  A chunk is one of         *)
(*   [t |-> "lit", s]      a literal piece of text                         *)
(*   [t |-> "run", c, n]   n copies of the character c                     *)
(*   [t |-> "num", i]      the decimal rendering of the integer i          *)
(*   [t |-> "ws"]          one whitespace character                        *)
(*   [t |-> "nl"]          one line feed                                   *)
(*   [t |-> "fence"]       the three backticks                             *)
(*   [t |-> "tag", s]      a word directly following a fence               *)
(*   [t |-> "doc", v]      the JSON text of the Python value v             *)
(*   [t |-> "byte"]        a byte that is not valid UTF-8 (in raw output)  *)
(*   [t |-> "surrogate"]   a lone surrogate code point                     *)
(* String concatenation and f-string interpolation are \o.                 *)
(***************************************************************************)
EXTENDS Integers, Sequences, FiniteSets, TLC

\* ------------------------------------------------------------------ bounds
\* The loop of run_mission has no step bound; the model stops issuing model
\* calls once the step counter exceeds MaxSteps.
MaxSteps == 2

\* The longest reply text, in chunks, that the post-processing of call_llm is
\* applied to on its own.
MaxReplyLen == 6

\* ------------------------------------------------------- program constants
MAX_OUTPUT_LENGTH == 30000
max_retries == 3
backoff_factor == 5
timeout == 600

\* -------------------------------------------------------------------- text
Lit(s) == [t |-> "lit", s |-> s]
Run(c, n) == [t |-> "run", c |-> c, n |-> n]
Num(i) == [t |-> "num", i |-> i]
WS == [t |-> "ws"]
NL == [t |-> "nl"]
Fence == [t |-> "fence"]
Tag(s) == [t |-> "tag", s |-> s]
Doc(v) == [t |-> "doc", v |-> v]

EmptyStr == << >>

Digits(i) == IF i < 10 THEN 1 ELSE IF i < 100 THEN 2 ELSE IF i < 1000 THEN 3 ELSE 4

ChunkLen(c) ==
    CASE c.t = "lit" -> Len(c.s)
      [] c.t = "run" -> c.n
      [] c.t = "num" -> Digits(c.i)
      [] c.t = "ws" -> 1
      [] c.t = "nl" -> 1
      [] c.t = "fence" -> 3
      [] c.t = "tag" -> Len(c.s)
      [] OTHER -> 2

RECURSIVE StrLen(_)
\* len(s)
StrLen(s) == IF s = << >> THEN 0 ELSE ChunkLen(Head(s)) + StrLen(Tail(s))

IsSpace(c) == c.t = "ws" \/ c.t = "nl" \/ (c.t = "run" /\ c.c = " ")

RECURSIVE LStrip(_)
LStrip(s) == IF s # << >> /\ IsSpace(Head(s)) THEN LStrip(Tail(s)) ELSE s

RECURSIVE RStrip(_)
RStrip(s) ==
    IF s # << >> /\ IsSpace(s[Len(s)]) THEN RStrip(SubSeq(s, 1, Len(s) - 1)) ELSE s

\* str.strip()
Strip(s) == RStrip(LStrip(s))

\* sub in s
Contains(s, sub) ==
    \E i \in 1..(Len(s) - Len(sub) + 1) : SubSeq(s, i, i + Len(sub) - 1) = sub

\* index of the first occurrence of sub in s (0 when there is none)
Find(s, sub) ==
    IF Contains(s, sub)
    THEN CHOOSE i \in 1..(Len(s) - Len(sub) + 1) :
            /\ SubSeq(s, i, i + Len(sub) - 1) = sub
            /\ \A j \in 1..(i - 1) : SubSeq(s, j, j + Len(sub) - 1) # sub
    ELSE 0

\* s.split(sub)[0]
SplitFirst(s, sub) ==
    IF Contains(s, sub) THEN SubSeq(s, 1, Find(s, sub) - 1) ELSE s

\* s.split(sub)[1], for s that contains sub
SplitSecond(s, sub) ==
    LET rest == SubSeq(s, Find(s, sub) + Len(sub), Len(s))
    IN SplitFirst(rest, sub)

\* ------------------------------------------------------------ Python values
\* A decoded JSON value: a dict (d maps its keys to strings) or a value of
\* another type.
Dict(d) == [type |-> "dict", d |-> d]
NonDict(ty) == [type |-> ty]

\* dict.get(key, default)
Get(v, key, default) == IF key \in DOMAIN v.d THEN v.d[key] ELSE default

\* json.dumps(value)
json_dumps(v) == << Doc(v) >>

\* json.loads(text): the value, or the marker JSONDecodeError.  Whitespace
\* around the one JSON document is allowed, anything else is not.
JSONDecodeError == [type |-> "JSONDecodeError"]

json_loads(text) ==
    LET s == Strip(text)
    IN IF Len(s) = 1 /\ s[1].t = "doc" THEN s[1].v ELSE JSONDecodeError


\* ------------------------------------------------------ mission parameters
target == << Lit("example.com") >>
objective == << Lit("identify open ports") >>

\* ------------------------------------------------- what the backend returns
ActScan == Dict([thought |-> "scan", command |-> "nmap -F example.com"])
ActNoCommand == Dict([thought |-> "thinking"])
ActSuccess == Dict([command |-> "FINISH_SUCCESS"])
ActFailure == Dict([thought |-> "giving up", command |-> "FINISH_FAILURE"])

Prose == Lit("Sure, here is my plan.")

\* The reply texts a backend may produce: bare JSON objects, JSON values that
\* are not objects, text that is not JSON, and fenced variants.
Replies ==
    { << Doc(ActScan) >>,
      << Doc(ActNoCommand) >>,
      << Doc(ActSuccess) >>,
      << Doc(ActFailure) >>,
      << Doc(NonDict("list")) >>,
      << Doc(NonDict("NoneType")) >>,
      << Prose >>,
      EmptyStr,
      << Fence, Tag("json"), WS, Doc(ActScan), WS, Fence >>,
      << Prose, WS, Fence, Tag("json"), WS, Doc(ActFailure), WS, Fence, WS, Prose >>,
      << WS, Fence, WS, Doc(ActSuccess), WS, Fence, WS >>,
      << Fence, Tag("python"), WS, Doc(ActScan), WS, Fence >> }

\* the markers a Markdown line can begin with
H1 == Lit("# ")
H2 == Lit("## ")

ReportHead ==
    << H1, Lit("Penetration Test Report: example.com"), NL,
       H2, Lit("Executive Summary"), NL,
       Lit("The objective was achieved."), NL,
       H2, Lit("Proof of Concept (PoC)"), NL >>

\* The reports of a model that follows the formatting rules of the report
\* prompt (lines 259-263): one title, the two required sections, and the
\* evidence in one fenced code block, with or without an info string.
ReportReplies ==
    { ReportHead \o << Fence, NL, Lit("80/tcp open http"), NL, Fence >>,
      ReportHead \o << Fence, NL, Lit("80/tcp open http"), NL, Fence, NL >>,
      ReportHead \o << Fence, Tag("text"), NL, Lit("80/tcp open http"), NL, Fence >>,
      ReportHead \o << Fence, Tag("json"), NL, Doc(Dict([port |-> "80"])), NL, Fence >> }

\* ----------------------------------------------------------------- call_llm
FenceJson == << Fence, Tag("json") >>

StartsWithFence(s) == s # << >> /\ s[1] = Fence

EndsWithFence(s) == s # << >> /\ s[Len(s)] = Fence

\* s[3:-3] for a str s that starts and ends with the three backticks
Unwrap(s) == IF Len(s) < 2 THEN EmptyStr ELSE SubSeq(s, 2, Len(s) - 1)

\* a variant of StripFences without the branch of lines 141-142
StripFencesWrappedOnly(content) ==
    IF StartsWithFence(Strip(content)) /\ EndsWithFence(Strip(content))
    THEN Strip(Unwrap(Strip(content)))
    ELSE content

\* lines 141-145: remove markdown wrappers from the reply
StripFences(content) ==
    IF Contains(content, FenceJson)
    THEN Strip(SplitFirst(SplitSecond(content, FenceJson), << Fence >>))
    ELSE IF StartsWithFence(Strip(content)) /\ EndsWithFence(Strip(content))
         THEN Strip(Unwrap(Strip(content)))
         ELSE content

\* a variant of BadRequestPayload that gives up instead
BadRequestGivesUp ==
    << Doc(Dict([thought |-> "The previous API request failed with a 400 error.",
                 command |-> "FINISH_FAILURE"])) >>

\* line 150
BadRequestPayload ==
    << Doc(Dict([thought |-> "The previous API request failed with a 400 error, likely because the context was too large. I need to proceed with a different approach, perhaps by summarizing previous findings or trying a less verbose command.",
                 command |-> "echo 'API request failed, retrying with a different strategy.'"])) >>

\* a variant of CriticalFailurePayload that asks for another try
CriticalFailureRetries ==
    << Doc(Dict([thought |-> "Critical API connection error. Check internet/DNS.",
                 command |-> "echo 'API connection failed, retrying.'"])) >>

\* line 161
CriticalFailurePayload ==
    << Doc(Dict([thought |-> "Critical API connection error. Check internet/DNS.",
                 command |-> "FINISH_FAILURE"])) >>

\* a variant of wait_time that multiplies by the zero-based attempt index
WaitTimeZeroBased(attempt_) == backoff_factor * attempt_

\* line 156
wait_time(attempt_) == backoff_factor * (attempt_ + 1)

\* ------------------------------------------------------ parse_llm_response
\* a variant of ParseFallback that ends the mission
ParseFallbackGivesUp ==
    Dict([thought |-> "The AI's response was not valid JSON.",
          command |-> "FINISH_FAILURE"])

\* line 170
ParseFallback ==
    Dict([thought |-> "The AI's response was not valid JSON. I will try again, ensuring my output is perfectly formatted.",
          command |-> "echo 'AI response has invalid format.'"])

parse_llm_response(response_text) ==
    IF json_loads(response_text) = JSONDecodeError
    THEN ParseFallback
    ELSE json_loads(response_text)

\* --------------------------------------------------------- execute_command
NoCommandError == << Lit("Error: No command to execute.") >>

TimeoutError ==
    << Lit("Error: The command timed out after "), Num(timeout), Lit(" seconds.") >>

SpawnError == << Lit("Error executing command: "), Lit("[Errno 12] Cannot allocate memory") >>

Undecodable == [t |-> "byte"]

\* the bytes a spawned command may write to stdout and stderr
RawOutputs ==
    { EmptyStr,
      << Run("x", MAX_OUTPUT_LENGTH), Undecodable >>,
      << Run("x", MAX_OUTPUT_LENGTH + 1) >>,
      << Run(" ", MAX_OUTPUT_LENGTH + 1) >> }

IsDecodable(c) == c.t # "byte"

\* lines 100-103: text=True, encoding='utf-8', errors='ignore'
Decode(bytes) == SelectSeq(bytes, IsDecodable)

\* line 105: process.stdout + process.stderr
Outputs == { Decode(bytes) : bytes \in RawOutputs }

IsEncodable(c) == c.t # "surrogate"

\* lines 205-206: the text as a file opened with encoding='utf-8',
\* errors='ignore' stores it (newlines are kept, as on POSIX)
Written(text) == SelectSeq(text, IsEncodable)

\* a variant of ExecOutcomes without the guard of line 93
ExecOutcomesUnguarded(command) ==
    { [how |-> h, result |-> o] : h \in { "exit_zero", "exit_nonzero" }, o \in Outputs }
    \cup { [how |-> "timeout", result |-> TimeoutError],
           [how |-> "error", result |-> SpawnError] }

\* how a call of execute_command(command) can end, and the string it returns:
\* without a command (line 93), with the process exited (line 105, whatever
\* its exit status), timed out (line 107) or not started (line 109)
ExecOutcomes(command) ==
    IF command = "" THEN { [how |-> "no_command", result |-> NoCommandError] }
    ELSE { [how |-> h, result |-> o] : h \in { "exit_zero", "exit_nonzero" }, o \in Outputs }
         \cup { [how |-> "timeout", result |-> TimeoutError],
                [how |-> "error", result |-> SpawnError] }

\* the strings execute_command(command) can return
execute_command(command) == { o.result : o \in ExecOutcomes(command) }

\* the ways in which execute_command(command) returns result
HowOf(command, result) ==
    { o.how : o \in { x \in ExecOutcomes(command) : x.result = result } }

\* lines 93-96: the number of subprocess.run calls execute_command(command) makes
Spawned(command) == IF command = "" THEN 0 ELSE 1

\* -------------------------------------------------------------- run_mission
\* a variant of filename that leaves the step out of the name
FilenameFixed(step_) == << Lit("output_step_"), Lit(".log") >>

\* line 204
filename(step_) == << Lit("output_step_"), Num(step_), Lit(".log") >>

\* lines 210-213
SpillFeedback(step_) ==
    << Lit("The command output was too large to display directly. It has been saved to the file '") >>
    \o filename(step_)
    \o << Lit("'.\nYou MUST analyze this file using file-reading commands (like 'head', 'tail', 'grep', 'cat') to find the relevant information and decide your next step.") >>

\* line 217
InlineFeedback(result) ==
    << Lit("The result of your last command was:\n---\n") >>
    \o result
    \o << Lit("\n---\nBased on this full result, what is your next step?") >>

\* line 214
SpillSummary(step_) ==
    << Lit("Output"), WS, Lit("too"), WS, Lit("large,"), WS, Lit("saved"), WS,
       Lit("to"), WS >> \o filename(step_)

Message(r, c) == [role |-> r, content |-> c]

system_prompt == << Lit("You are 'Cortex', an autonomous cybersecurity agent.") >>

\* line 177
user_prompt ==
    << Lit("The target is '") >> \o target \o << Lit("' and the objective is '") >>
    \o objective \o << Lit("'. Please begin.") >>

\* a variant of IsTerminal that knows one sentinel only
IsTerminalSuccessOnly(command) == command = "FINISH_SUCCESS"

\* a variant of IsTerminal that ends the loop on failure only
IsTerminalFailureOnly(command) == command = "FINISH_FAILURE"

\* line 195
IsTerminal(command) == command \in { "FINISH_SUCCESS", "FINISH_FAILURE" }

\* a variant of TooLarge that spills at the threshold as well
TooLargeInclusive(result) == StrLen(result) >= MAX_OUTPUT_LENGTH

\* line 203
TooLarge(result) == StrLen(result) > MAX_OUTPUT_LENGTH

\* a variant of AppendTurns that leaves the assistant turn out
AppendTurnsUserOnly(msgs, a, user_feedback) ==
    msgs \o << Message("user", user_feedback) >>

\* a variant of AppendTurns that keeps the system prompt and drops the older
\* turns to make room
AppendTurnsTruncating(msgs, a, user_feedback) ==
    << msgs[1], Message("assistant", json_dumps(a)), Message("user", user_feedback) >>

\* a variant of AppendTurns whose assistant turn carries the thought alone
AppendTurnsThoughtOnly(msgs, a, user_feedback) ==
    msgs \o << Message("assistant", << Lit(Get(a, "thought", "")) >>),
               Message("user", user_feedback) >>

\* lines 219-220
AppendTurns(msgs, a, user_feedback) ==
    msgs \o << Message("assistant", json_dumps(a)), Message("user", user_feedback) >>

\* a variant of StepRecord that numbers the steps from 0
StepRecordFromZero(step_, thought, command) ==
    [step |-> step_ - 1, thought |-> thought, command |-> command,
     result |-> EmptyStr, result_summary |-> EmptyStr]

\* line 192
StepRecord(step_, thought, command) ==
    [step |-> step_, thought |-> thought, command |-> command,
     result |-> EmptyStr, result_summary |-> EmptyStr]

\* ------------------------------------------------------------------- state
VARIABLES
    pc,                 \* where the single thread of control is
    caller,             \* the function the current call_llm returns to
    step,               \* run_mission: step
    history,            \* self.history
    messages,           \* run_mission: messages
    action,             \* run_mission: action
    llm_response_text,  \* the value call_llm returned
    attempt,            \* call_llm: attempt
    waited,             \* call_llm: seconds slept in this call
    tries,              \* call_llm: backend requests made in this call
    backend,            \* call_llm: outcome of the last backend request
    content,            \* call_llm: content, as the backend returned it
    files,              \* the files written in the working directory
    report_messages,    \* generate_report: messages
    report_calls,       \* call_llm invocations made by generate_report
    report,             \* what generate_report has printed
    spawns,             \* subprocess.run calls made so far
    exec_how,           \* how the last execute_command call ended
    rejected_only,      \* every backend request so far was rejected with 400
    exit_status,        \* the exit status of the process, once it has exited
    config_error,       \* the configuration error __main__ reported, if any
    sigint              \* the operator has interrupted the process

vars == << pc, caller, step, history, messages, action, llm_response_text,
           attempt, waited, tries, backend, content, files, report_messages,
           report_calls, report, spawns, exec_how, rejected_only, exit_status,
           config_error, sigint >>

NoAction == NonDict("unset")

mission_vars == << step, history, messages, action, files >>
report_vars == << report_messages, report_calls, report >>
call_vars == << attempt, waited, tries, backend, content >>
exec_vars == << spawns, exec_how >>
main_vars == << exit_status, config_error, sigint >>

\* lines 176-180, and the entry of call_llm at line 185
Init ==
    /\ pc = "call_llm"
    /\ caller = "run_mission"
    /\ step = 1
    /\ history = << >>
    /\ messages = << Message("system", system_prompt), Message("user", user_prompt) >>
    /\ action = NoAction
    /\ llm_response_text = EmptyStr
    /\ attempt = 0
    /\ waited = 0
    /\ tries = 0
    /\ backend = "none"
    /\ content = EmptyStr
    /\ files = {}
    /\ report_messages = << >>
    /\ report_calls = 0
    /\ report = "none"
    /\ spawns = 0
    /\ exec_how = "none"
    /\ rejected_only = TRUE
    /\ exit_status = 0
    /\ config_error = "none"
    /\ sigint = FALSE

\* the argument of the call_llm invocation in progress
prompt_messages == IF caller = "run_mission" THEN messages ELSE report_messages

\* what the backend may answer to the prompt of the caller
RepliesTo(fn) == IF fn = "run_mission" THEN Replies ELSE ReportReplies

\* a backend request may be issued
CanRequest ==
    /\ pc = "call_llm"
    /\ caller = "run_mission" => step <= MaxSteps

\* ----------------------------------------------------------------- call_llm
\* lines 133-145: the backend answers, the reply is stripped and returned
BackendReply(reply) ==
    /\ CanRequest
    /\ reply \in RepliesTo(caller)
    /\ tries' = tries + 1
    /\ backend' = "ok"
    /\ content' = reply
    /\ llm_response_text' = StripFences(reply)
    /\ pc' = "returned"
    /\ rejected_only' = FALSE
    /\ UNCHANGED << caller, attempt, waited, mission_vars, report_vars, exec_vars,
                    main_vars >>

\* lines 146-150: HTTP status 400
BackendBadRequest ==
    /\ CanRequest
    /\ tries' = tries + 1
    /\ backend' = "400"
    /\ llm_response_text' = BadRequestPayload
    /\ pc' = "returned"
    /\ UNCHANGED << caller, attempt, waited, content, mission_vars, report_vars,
                    exec_vars, rejected_only, main_vars >>

\* lines 151-161: another HTTP error status or a RequestException
BackendTransientError ==
    /\ CanRequest
    /\ tries' = tries + 1
    /\ backend' = "transient"
    /\ IF attempt < max_retries - 1
       THEN /\ pc' = "sleep"
            /\ UNCHANGED llm_response_text
       ELSE /\ pc' = "returned"
            /\ llm_response_text' = CriticalFailurePayload
    /\ rejected_only' = FALSE
    /\ UNCHANGED << caller, attempt, waited, content, mission_vars, report_vars,
                    exec_vars, main_vars >>

\* lines 116/125: a 2xx response whose body lacks the reply path raises a
\* KeyError or TypeError, which call_llm does not catch
BackendBadBody ==
    /\ CanRequest
    /\ tries' = tries + 1
    /\ backend' = "bad_body"
    /\ pc' = "crashed"
    /\ rejected_only' = FALSE
    /\ UNCHANGED << caller, attempt, waited, content, llm_response_text,
                    mission_vars, report_vars, exec_vars, main_vars >>

\* line 158, then the next iteration of the for loop at line 132
Sleep ==
    /\ pc = "sleep"
    /\ waited' = waited + wait_time(attempt)
    /\ attempt' = attempt + 1
    /\ pc' = "call_llm"
    /\ UNCHANGED << caller, tries, backend, content, llm_response_text,
                    mission_vars, report_vars, exec_vars, rejected_only, main_vars >>

\* the frame of call_llm is gone once the caller goes on
ReturnFromCall ==
    /\ attempt' = 0
    /\ waited' = 0
    /\ tries' = 0
    /\ backend' = "none"
    /\ content' = EmptyStr

\* -------------------------------------------------------------- run_mission
Returned(fn) == pc = "returned" /\ caller = fn

\* lines 186-188: the decoded value is not a dict, action.get raises
\* AttributeError and the exception leaves run_mission
StepRaises ==
    /\ Returned("run_mission")
    /\ parse_llm_response(llm_response_text).type # "dict"
    /\ action' = parse_llm_response(llm_response_text)
    /\ pc' = "crashed"
    /\ ReturnFromCall
    /\ UNCHANGED << caller, step, history, messages, files, llm_response_text,
                    report_vars, exec_vars, rejected_only, main_vars >>

\* lines 186-193 for a dict
Decide(a) ==
    /\ action' = a
    /\ history' = Append(history,
                         StepRecord(step, Get(a, "thought", "No thought recorded."),
                                    Get(a, "command", "")))
    /\ ReturnFromCall
    /\ UNCHANGED << caller, step, messages, files, llm_response_text, report_vars,
                    exec_how, rejected_only, main_vars >>

\* lines 186-198: a terminal sentinel ends the loop
StepTerminal ==
    /\ Returned("run_mission")
    /\ LET a == parse_llm_response(llm_response_text)
       IN /\ a.type = "dict"
          /\ IsTerminal(Get(a, "command", ""))
          /\ Decide(a)
    /\ pc' = "terminated"
    /\ UNCHANGED spawns

\* lines 186-200: any other command is handed to execute_command
StepExecute ==
    /\ Returned("run_mission")
    /\ LET a == parse_llm_response(llm_response_text)
       IN /\ a.type = "dict"
          /\ ~IsTerminal(Get(a, "command", ""))
          /\ Decide(a)
          /\ spawns' = spawns + Spawned(Get(a, "command", ""))
    /\ pc' = "execute"

current_history == history[Len(history)]

\* lines 201-222: execute_command returned result
CompleteStep(result) ==
    /\ pc = "execute"
    /\ result \in execute_command(current_history.command)
    /\ IF TooLarge(result)
       THEN /\ files' = { f \in files : f.name # filename(step) }
                        \cup { [name |-> filename(step), content |-> Written(result)] }
            /\ history' = [history EXCEPT ![Len(history)].result = result,
                                          ![Len(history)].result_summary = SpillSummary(step)]
            /\ messages' = AppendTurns(messages, action, SpillFeedback(step))
       ELSE /\ UNCHANGED files
            /\ history' = [history EXCEPT ![Len(history)].result = result]
            /\ messages' = AppendTurns(messages, action, InlineFeedback(result))
    /\ exec_how' \in HowOf(current_history.command, result)
    /\ step' = step + 1
    /\ pc' = "call_llm"
    /\ UNCHANGED << caller, action, llm_response_text, call_vars, report_vars,
                    spawns, rejected_only, main_vars >>

\* lines 201-205: the spill file cannot be opened, the OSError leaves
\* run_mission
SpillRaises(result) ==
    /\ pc = "execute"
    /\ result \in execute_command(current_history.command)
    /\ TooLarge(result)
    /\ history' = [history EXCEPT ![Len(history)].result = result]
    /\ exec_how' \in HowOf(current_history.command, result)
    /\ pc' = "crashed"
    /\ UNCHANGED << caller, step, messages, action, files, llm_response_text,
                    call_vars, report_vars, spawns, rejected_only, main_vars >>

\* ---------------------------------------------------------- generate_report
\* lines 229-235: the line(s) of one record
SummaryOf(record) ==
    IF record.command \in { "FINISH_SUCCESS", "FINISH_FAILURE" }
    THEN << Lit("Step "), Num(record.step), Lit(": Mission finished with status: "),
            Lit(record.command), Lit(".") >>
    ELSE << Lit("Step "), Num(record.step), Lit(":\n- Thought: "), Lit(record.thought),
            Lit("\n- Command Executed: "), Lit(record.command) >>

RECURSIVE JoinSummaries(_)
\* "\n".join(summary)
JoinSummaries(records) ==
    IF records = << >> THEN EmptyStr
    ELSE IF Len(records) = 1 THEN SummaryOf(records[1])
    ELSE SummaryOf(records[1]) \o << Lit("\n") >> \o JoinSummaries(Tail(records))

\* lines 226-236
summarize_history_for_report == JoinSummaries(history)

RECURSIVE LastWord(_)
\* s.split(' ')[-1]
LastWord(s) ==
    IF s = << >> \/ IsSpace(s[Len(s)]) THEN EmptyStr
    ELSE LastWord(SubSeq(s, 1, Len(s) - 1)) \o << s[Len(s)] >>

\* lines 251-253
final_evidence ==
    LET record == history[Len(history) - 1]
    IN IF Strip(record.result) = EmptyStr /\ record.result_summary # EmptyStr
       THEN << Lit("Evidence is located in the file: ") >> \o LastWord(record.result_summary)
       ELSE Strip(record.result)

\* lines 255-280
report_prompt ==
    << Lit("You are a senior penetration tester summarizing the results of an engagement."),
       Lit("**Target:** ") >> \o target
    \o << Lit("**Objective:** ") >> \o objective
    \o << Lit("**Execution Log (for your context only):**") >> \o summarize_history_for_report
    \o << Lit("**Final Proof of Concept (PoC) Data:**") >> \o final_evidence
    \o << Lit("Now, generate the final report based on these instructions.") >>

\* a variant of SkipsNarrative that does not look at the final status
SkipsNarrativeAnyStatus ==
    \/ history = << >>
    \/ Len(history) < 2

\* line 241
SkipsNarrative ==
    \/ history = << >>
    \/ history[Len(history)].command # "FINISH_SUCCESS"
    \/ Len(history) < 2

\* lines 224, 239-248: the minimal failure summary
ReportMinimal ==
    /\ pc = "terminated"
    /\ SkipsNarrative
    /\ report' = "minimal"
    /\ pc' = "done"
    /\ UNCHANGED << caller, llm_response_text, call_vars, mission_vars,
                    report_messages, report_calls, exec_vars, rejected_only,
                    main_vars >>

\* lines 224, 239-241, 250-286: the report prompt is sent to the model
ReportCall ==
    /\ pc = "terminated"
    /\ ~SkipsNarrative
    /\ report_messages' = << Message("user", report_prompt) >>
    /\ report_calls' = report_calls + 1
    /\ caller' = "generate_report"
    /\ pc' = "call_llm"
    /\ UNCHANGED << llm_response_text, call_vars, mission_vars, report, exec_vars,
                    rejected_only, main_vars >>

FirstBreak(s) == Find(s, << NL >>)

RECURSIVE splitlines(_)
\* str.splitlines() for texts whose only line boundary is the line feed
splitlines(s) ==
    IF s = << >> THEN << >>
    ELSE IF FirstBreak(s) = 0 THEN << s >>
    ELSE << SubSeq(s, 1, FirstBreak(s) - 1) >>
         \o splitlines(SubSeq(s, FirstBreak(s) + 1, Len(s)))

\* line.startswith(prefix) for the prefixes the model keeps as chunks
startswith(line, prefix) == line # << >> /\ line[1] = prefix

RECURSIVE RenderLines(_, _)
\* lines 290-302: the style each line is printed in
RenderLines(lines, in_code_block) ==
    IF lines = << >> THEN << >>
    ELSE LET line == Head(lines)
         IN IF startswith(Strip(line), Fence)
            THEN << [style |-> "fence", line |-> line] >>
                 \o RenderLines(Tail(lines), ~in_code_block)
            ELSE << [style |-> IF in_code_block THEN "code"
                               ELSE IF startswith(line, H1) THEN "title"
                               ELSE IF startswith(line, H2) THEN "section"
                               ELSE "plain",
                     line |-> line] >>
                 \o RenderLines(Tail(lines), in_code_block)

\* lines 288-304: what is printed between the two banners
Rendered(narrative_report) == RenderLines(splitlines(narrative_report), FALSE)

\* lines 288-304: the narrative is printed
ReportRender ==
    /\ Returned("generate_report")
    /\ report' = "narrative"
    /\ pc' = "done"
    /\ ReturnFromCall
    /\ UNCHANGED << caller, llm_response_text, mission_vars, report_messages,
                    report_calls, exec_vars, rejected_only, main_vars >>

\* ----------------------------------------------------------------- __main__
\* the thread is inside requests.post, time.sleep or subprocess.run
Blocked ==
    \/ CanRequest
    \/ pc = "sleep"
    \/ pc = "execute" /\ Spawned(current_history.command) = 1

\* a variant of AfterInterrupt in which the loop is left as by a break
AfterInterruptReports == "terminated"

\* lines 391-392: the handler of KeyboardInterrupt prints a notice
AfterInterrupt == "interrupted"

\* KeyboardInterrupt is raised in the blocking call; neither call_llm nor
\* execute_command catches it (it is no Exception), so it reaches line 391
Interrupt ==
    /\ Blocked
    /\ sigint' = TRUE
    /\ pc' = AfterInterrupt
    /\ UNCHANGED << caller, llm_response_text, call_vars, mission_vars, report_vars,
                    exec_vars, rejected_only, exit_status, config_error >>

\* ----------------------------------------------------------- specification
Next ==
    \/ \E reply \in Replies \cup ReportReplies : BackendReply(reply)
    \/ BackendBadRequest
    \/ BackendTransientError
    \/ BackendBadBody
    \/ Sleep
    \/ StepRaises
    \/ StepTerminal
    \/ StepExecute
    \/ \E result \in Outputs \cup { NoCommandError, TimeoutError, SpawnError } :
          CompleteStep(result)
    \/ \E result \in Outputs : SpillRaises(result)
    \/ ReportMinimal
    \/ ReportCall
    \/ ReportRender
    \/ Interrupt

Spec == Init /\ [][Next]_vars

\* ------------------------------------------------- the process from its start
\* What __main__ is started with: the provider chosen, and whether the API
\* key (environment), the model name, the target and the objective are
\* present and non-empty.
Configs ==
    [ provider : { "openrouter", "ollama" }, api_key : BOOLEAN, model : BOOLEAN,
      target : BOOLEAN, objective : BOOLEAN ]

\* lines 377-380 and 55-79: the ValueError raised for a configuration
ConfigErrorOf(cfg) ==
    IF cfg.provider = "openrouter" /\ ~cfg.api_key
    THEN "For the 'openrouter' provider, the 'OPENROUTER_API_KEY' environment variable is not set."
    ELSE IF ~cfg.target \/ ~cfg.objective
    THEN "Target and objective are required."
    ELSE IF cfg.provider = "ollama" /\ ~cfg.model
    THEN "A model name must be specified for the Ollama provider (--model)."
    ELSE "none"

\* lines 393-394 and 397-404: the handler prints the error, the finally
\* block runs and the script ends; nothing calls sys.exit
StatusAfterConfigError == 0

\* line 90: sys.exit(1)
StatusAfterCancel == 1

\* line 375, before anything is constructed
InitMain ==
    /\ pc = "main"
    /\ caller = "run_mission"
    /\ step = 1
    /\ history = << >>
    /\ messages = << Message("system", system_prompt), Message("user", user_prompt) >>
    /\ action = NoAction
    /\ llm_response_text = EmptyStr
    /\ attempt = 0
    /\ waited = 0
    /\ tries = 0
    /\ backend = "none"
    /\ content = EmptyStr
    /\ files = {}
    /\ report_messages = << >>
    /\ report_calls = 0
    /\ report = "none"
    /\ spawns = 0
    /\ exec_how = "none"
    /\ rejected_only = TRUE
    /\ exit_status = 0
    /\ config_error = "none"
    /\ sigint = FALSE

main_frame ==
    << caller, llm_response_text, call_vars, mission_vars, report_vars, exec_vars,
       rejected_only, sigint >>

\* lines 376-389 raise ValueError, lines 393-404 handle it
MainConfigError(cfg) ==
    /\ pc = "main"
    /\ ConfigErrorOf(cfg) # "none"
    /\ config_error' = ConfigErrorOf(cfg)
    /\ exit_status' = StatusAfterConfigError
    /\ pc' = "exited"
    /\ UNCHANGED main_frame

\* lines 86-90: the configuration is accepted, the prompt reads end of file
MainCancelled(cfg) ==
    /\ pc = "main"
    /\ ConfigErrorOf(cfg) = "none"
    /\ exit_status' = StatusAfterCancel
    /\ pc' = "exited"
    /\ UNCHANGED << config_error, main_frame >>

\* lines 382-390, 172-185: the agent is constructed and run_mission begins
MainStart(cfg) ==
    /\ pc = "main"
    /\ ConfigErrorOf(cfg) = "none"
    /\ pc' = "call_llm"
    /\ UNCHANGED << exit_status, config_error, main_frame >>

NextMain ==
    \/ \E cfg \in Configs : MainConfigError(cfg)
    \/ \E cfg \in Configs : MainCancelled(cfg)
    \/ \E cfg \in Configs : MainStart(cfg)
    \/ Next

SpecMain == InitMain /\ [][NextMain]_vars

\* ------------------------------------- the post-processing of call_llm alone
\* the pieces a reply is made of
ReplyChunks == { Fence, Tag("json"), Tag("python"), WS, Doc(ActScan), Prose }

\* every reply text of at most MaxReplyLen chunks
ReplyTexts == UNION { [ 1..k -> ReplyChunks ] : k \in 0..MaxReplyLen }

\* lines 135-139 of the first request of the first step: the backend has
\* answered and content holds its reply
InitFences ==
    /\ pc = "post_process"
    /\ caller = "run_mission"
    /\ step = 1
    /\ history = << >>
    /\ messages = << Message("system", system_prompt), Message("user", user_prompt) >>
    /\ action = NoAction
    /\ llm_response_text = EmptyStr
    /\ attempt = 0
    /\ waited = 0
    /\ tries = 1
    /\ backend = "ok"
    /\ content \in ReplyTexts
    /\ files = {}
    /\ report_messages = << >>
    /\ report_calls = 0
    /\ report = "none"
    /\ spawns = 0
    /\ exec_how = "none"
    /\ rejected_only = FALSE
    /\ exit_status = 0
    /\ config_error = "none"
    /\ sigint = FALSE

\* lines 141-145: the reply is post-processed and returned
PostProcess ==
    /\ pc = "post_process"
    /\ llm_response_text' = StripFences(content)
    /\ pc' = "returned"
    /\ UNCHANGED << caller, call_vars, mission_vars, report_vars, exec_vars,
                    rejected_only, main_vars >>

NextFences == PostProcess

SpecFences == InitFences /\ [][NextFences]_vars

\* ==================================================================== claims
Sentinels == { "FINISH_SUCCESS", "FINISH_FAILURE" }

LastRecord == history[Len(history)]

\* the command a reply text decodes to ("" when it has none)
CommandOf(text) == Get(json_loads(text), "command", "")

\* ---------------------------------------------------------------------- C1
\* C1: the i-th record of the history has step = i, and a step of the
\* program only ever appends to the history: the records already there keep
\* their step, thought and command.
C1_HistoryContiguous ==
    /\ [](\A i \in 1..Len(history) : history[i].step = i)
    /\ [][/\ Len(history') \in { Len(history), Len(history) + 1 }
          /\ \A i \in 1..Len(history) :
                /\ history'[i].step = history[i].step
                /\ history'[i].thought = history[i].thought
                /\ history'[i].command = history[i].command]_vars

\* a parse-fallback step followed by the step of an exhausted model call
C1_Witness ==
    /\ pc = "terminated"
    /\ Len(history) = 2
    /\ history[1].command = "echo 'AI response has invalid format.'"
    /\ history[2].thought = "Critical API connection error. Check internet/DNS."
    /\ history[2].command = "FINISH_FAILURE"

\* ---------------------------------------------------------------------- C2
\* C2: only the last record may hold a terminal sentinel, and once the last
\* record holds one the history no longer changes.
C2_OnlyLastTerminal ==
    /\ [](\A i \in 1..(Len(history) - 1) : history[i].command \notin Sentinels)
    /\ [][(history # << >> /\ LastRecord.command \in Sentinels)
            => history' = history]_vars

C2_Witness ==
    /\ pc = "done"
    /\ Len(history) = 2
    /\ LastRecord.command = "FINISH_FAILURE"

\* ---------------------------------------------------------------------- C3
\* seconds slept before the backend request number k of one call
WaitedBefore(k) == IF k <= 1 THEN 0 ELSE IF k = 2 THEN 5 ELSE 15

\* C3: one call makes at most 3 backend requests; after request k fails with
\* a transient error (k = 1, 2) it sleeps exactly 5*k seconds and then makes
\* request k+1; a reply to request 3 is returned after 5 + 10 seconds; after a
\* third transient error the call returns, with no further sleep, the payload
\* whose command is FINISH_FAILURE.  (A sleep ends early only when the
\* operator interrupts the process.)
C3_RetryBackoff ==
    /\ [](/\ tries <= 3
          /\ pc = "call_llm" => (tries = attempt /\ waited = WaitedBefore(tries + 1))
          /\ pc = "sleep" => (backend = "transient" /\ tries \in { 1, 2 }
                               /\ waited = WaitedBefore(tries))
          /\ (pc = "returned" /\ backend = "ok")
                => (waited = WaitedBefore(tries)
                    /\ llm_response_text = StripFences(content))
          /\ (pc = "returned" /\ backend = "transient")
                => (tries = 3 /\ waited = 15
                    /\ CommandOf(llm_response_text) = "FINISH_FAILURE"))
    /\ [][/\ (pc = "sleep" /\ pc' # "interrupted")
                => (waited' = waited + 5 * tries /\ pc' = "call_llm"
                    /\ tries' = tries)
          /\ (pc = "call_llm" /\ tries' = tries + 1 /\ backend' = "transient"
              /\ tries' < 3)
                => (pc' = "sleep" /\ waited' = waited)]_vars

\* the third request of a call is answered
C3_Witness ==
    /\ pc = "returned"
    /\ backend = "ok"
    /\ tries = 3
    /\ waited = 15
    /\ content # EmptyStr

\* ---------------------------------------------------------------------- C4
\* C4: a request rejected with status 400 ends the call at once: no sleep
\* follows it, no further request is made, and the text returned decodes to
\* a dict whose command is the echo command, not a sentinel.
C4_BadRequestReturns ==
    /\ [](backend = "400"
            => /\ pc = "returned"
               /\ waited = WaitedBefore(tries)
               /\ json_loads(llm_response_text).type = "dict"
               /\ CommandOf(llm_response_text)
                    = "echo 'API request failed, retrying with a different strategy.'"
               /\ CommandOf(llm_response_text) \notin Sentinels)
    /\ [][(pc = "call_llm" /\ backend' = "400")
            => (pc' = "returned" /\ waited' = waited /\ tries' = tries + 1)]_vars

\* the third request of a call is rejected with 400
C4_Witness ==
    /\ backend = "400"
    /\ tries = 3
    /\ pc = "returned"

\* ---------------------------------------------------------------------- C5
\* generate_report has been entered
ReportEntered == pc = "done" \/ caller = "generate_report"

NarrativeDue == Len(history) >= 2 /\ LastRecord.command = "FINISH_SUCCESS"

\* C5: generate_report calls the model if and only if the history has at
\* least 2 records and ends with FINISH_SUCCESS; it then makes exactly one
\* call_llm invocation, with a message list of one user turn; otherwise it
\* makes none and prints the minimal failure summary.
C5_ReportGate ==
    /\ report_calls <= 1
    /\ ~ReportEntered => (report_calls = 0 /\ report = "none")
    /\ (ReportEntered /\ NarrativeDue)
          => /\ report_calls = 1
             /\ report # "minimal"
             /\ Len(report_messages) = 1
             /\ report_messages[1].role = "user"
    /\ (ReportEntered /\ ~NarrativeDue)
          => /\ report_calls = 0
             /\ report = "minimal"
             /\ report_messages = << >>
             /\ caller = "run_mission"

\* a first reply of FINISH_SUCCESS: one record, the minimal summary, no call
ScenarioD ==
    /\ pc = "done"
    /\ Len(history) = 1
    /\ LastRecord.command = "FINISH_SUCCESS"
    /\ report = "minimal"
    /\ report_calls = 0

\* a narrative report: two records, one call, one user turn
C5_Witness ==
    /\ pc = "done"
    /\ Len(history) = 2
    /\ LastRecord.command = "FINISH_SUCCESS"
    /\ report = "narrative"
    /\ report_calls = 1
    /\ Len(report_messages) = 1

\* ---------------------------------------------------------------------- C6
\* the step of record i ran to its end
Completed(i) == history[i].step < step

\* C6: the record of a completed non-terminal step has a spill pointer if and
\* only if its result is longer than 30000 characters; the record of a
\* terminal step has none.
C6_PointerIffLarge ==
    \A i \in 1..Len(history) :
        /\ Completed(i)
              => (history[i].result_summary # EmptyStr
                    <=> StrLen(history[i].result) > 30000)
        /\ history[i].command \in Sentinels
              => (history[i].result_summary = EmptyStr /\ history[i].result = EmptyStr)

\* a result of exactly 30000 characters, then one of 30001
C6_Witness ==
    /\ Len(history) = 2
    /\ Completed(1) /\ Completed(2)
    /\ StrLen(history[1].result) = 30000
    /\ history[1].result_summary = EmptyStr
    /\ StrLen(history[2].result) = 30001
    /\ history[2].result_summary # EmptyStr

\* ---------------------------------------------------------------------- C7
LogName(n) == << Lit("output_step_"), Num(n), Lit(".log") >>

\* the user turn appended by step n
UserTurnOf(n) == messages[2 * n + 2]

\* C7: a completed step n whose result is longer than 30000 characters has
\* written the file output_step_<n>.log holding the result, and its user turn
\* names the file and does not embed the result; a completed step with a
\* shorter result has written no file, and its user turn embeds the result.
C7_SpillRoundTrip ==
    /\ \A i \in 1..Len(history) :
          Completed(i) =>
             IF StrLen(history[i].result) > 30000
             THEN /\ [name |-> LogName(i), content |-> history[i].result] \in files
                  /\ Contains(UserTurnOf(i).content, LogName(i))
                  /\ ~Contains(UserTurnOf(i).content, history[i].result)
             ELSE /\ \A f \in files : f.name # LogName(i)
                  /\ Contains(UserTurnOf(i).content, history[i].result)
    /\ \A f \in files : \E i \in 1..Len(history) :
          Completed(i) /\ f = [name |-> LogName(i), content |-> history[i].result]

\* both steps spilled: two files with different names
C7_Witness ==
    /\ Len(history) = 2
    /\ Completed(2)
    /\ Cardinality(files) = 2
    /\ [name |-> LogName(2), content |-> << Run("x", 30001) >>] \in files

\* ---------------------------------------------------------------------- C8
FailsDecoding(text) == json_loads(text) = JSONDecodeError

\* C8: when the reply fails JSON decoding, the step records the fixed echo
\* command, which is no sentinel, hands it to execute_command, and unless the
\* spill file cannot be written or the operator interrupts goes on to the
\* model call of the next step.
C8_DecodeFallback ==
    /\ [][(Returned("run_mission") /\ FailsDecoding(llm_response_text))
            => /\ pc' = "execute"
               /\ Len(history') = Len(history) + 1
               /\ history'[Len(history')].command = "echo 'AI response has invalid format.'"
               /\ history'[Len(history')].command \notin Sentinels
               /\ action' = ParseFallback]_vars
    /\ [][(pc = "execute" /\ FailsDecoding(llm_response_text)
           /\ pc' \notin { "crashed", "interrupted" })
            => (pc' = "call_llm" /\ step' = step + 1
                /\ caller' = "run_mission")]_vars

\* an undecodable first reply, and the loop at the model call of step 2
C8_Witness ==
    /\ pc = "call_llm"
    /\ step = 2
    /\ FailsDecoding(llm_response_text)
    /\ history[1].command = "echo 'AI response has invalid format.'"

\* ---------------------------------------------------------------------- C9
\* C9: whatever text call_llm returned, the step appends a record and goes on
\* to execute the command or to end the loop.
C9_ParseTotal ==
    [][Returned("run_mission")
         => (Len(history') = Len(history) + 1 /\ pc' \in { "execute", "terminated" })]_vars

\* --------------------------------------------------------------------- C10
RoleAt(i) == IF i = 1 THEN "system" ELSE IF i % 2 = 0 THEN "user" ELSE "assistant"

\* C10: the context starts as [system, user] and is only appended to: a
\* completed non-terminal step appends an assistant turn and a user turn, a
\* terminal step appends nothing, so the context has 2n messages at the model
\* call of step n, its roles alternate after the system turn, it ends with a
\* user turn, and no message already there changes.
C10_ContextAppendOnly ==
    /\ [](/\ Len(messages) = 2 * step
          /\ \A i \in 1..Len(messages) : messages[i].role = RoleAt(i)
          /\ messages[Len(messages)].role = "user"
          /\ messages[1].content = system_prompt
          /\ messages[2].content = user_prompt)
    /\ [][/\ Len(messages') \in { Len(messages), Len(messages) + 2 }
          /\ SubSeq(messages', 1, Len(messages)) = messages
          /\ step' # step <=> Len(messages') = Len(messages) + 2
          /\ pc' = "terminated" => messages' = messages]_vars

\* the model call of step 2, with 4 messages
C10_Witness ==
    /\ pc = "call_llm"
    /\ caller = "run_mission"
    /\ step = 2
    /\ Len(messages) = 4
    /\ tries = 0

\* --------------------------------------------------------------------- C11
\* the assistant turn a step that has just completed appended
AssistantTurnAppended == messages'[Len(messages') - 1]

\* C11 as stated: the assistant turn appended by a completed step is the text
\* call_llm returned for that step.
C11_AssistantIsReply ==
    [][step' = step + 1 => AssistantTurnAppended.content = llm_response_text]_vars

\* C11 as amended: the assistant turn appended by a completed step is the JSON
\* text of the action the step acted on: the decoded object when the reply
\* decoded, the parser's fallback action (and not the reply) when it did not.
C11_AssistantIsAction ==
    [][step' = step + 1
         => /\ AssistantTurnAppended.role = "assistant"
            /\ json_loads(AssistantTurnAppended.content).type = "dict"
            /\ IF FailsDecoding(llm_response_text)
               THEN /\ CommandOf(AssistantTurnAppended.content)
                         = "echo 'AI response has invalid format.'"
                    /\ AssistantTurnAppended.content # llm_response_text
               ELSE json_loads(AssistantTurnAppended.content)
                         = json_loads(llm_response_text)]_vars

\* an undecodable reply at step 1 and a 400 rejection at step 2, both completed
C11_Witness ==
    /\ step = 3
    /\ Len(messages) = 6
    /\ CommandOf(messages[3].content) = "echo 'AI response has invalid format.'"
    /\ messages[5].content = BadRequestPayload

\* --------------------------------------------------------------------- C12
\* the record the report takes its evidence from
EvidenceRecord == history[Len(history) - 1]

\* C12: on the success path the report prompt embeds the second-to-last
\* record's result when that record has no spill pointer, and embeds the
\* file reference, not the raw result, when it has one.
C12_EvidenceSelection ==
    (caller = "generate_report" /\ Len(report_messages) = 1)
      => IF EvidenceRecord.result_summary = EmptyStr
         THEN Contains(report_messages[1].content,
                       << Lit("**Final Proof of Concept (PoC) Data:**") >>
                       \o Strip(EvidenceRecord.result))
         ELSE /\ Contains(report_messages[1].content,
                          << Lit("Evidence is located in the file: ") >>
                          \o LogName(EvidenceRecord.step))
              /\ ~Contains(report_messages[1].content, EvidenceRecord.result)

\* --------------------------------------------------------------------- C13
\* the records whose command was handed to a shell
SpawningRecords ==
    { i \in 1..Len(history) :
        history[i].command \notin Sentinels /\ history[i].command # "" }

\* the user turn carries the result, or the name of the file it was spilled to
CarriesResult(turn, record) ==
    /\ turn.role = "user"
    /\ \/ Contains(turn.content, record.result)
       \/ Contains(turn.content, LogName(record.step))

C14_InterruptAborts ==
    /\ []((sigint /\ caller = "run_mission")
            => (pc = "interrupted" /\ report = "none" /\ report_calls = 0
                /\ report_messages = << >>))
    /\ [][(sigint' /\ ~sigint)
            => (pc \in { "call_llm", "sleep", "execute" }
                /\ UNCHANGED << history, messages, step, files, tries, spawns,
                                report, report_calls >>)]_vars
    /\ [][~sigint]_vars

\* interrupted during the command of step 2
C14_Witness ==
    /\ sigint
    /\ pc = "interrupted"
    /\ caller = "run_mission"
    /\ Len(history) = 2
    /\ LastRecord.result = EmptyStr
    /\ spawns = 2

\* --------------------------------------------------------------------- C15
\* C15: a process that reported a configuration error has exited with a
\* non-zero status without having made a backend request, executed a command
\* or recorded a step.
C15_ConfigErrorExits ==
    config_error # "none"
      => /\ pc = "exited"
         /\ tries = 0
         /\ spawns = 0
         /\ history = << >>
         /\ exit_status # 0

\* --------------------------------------------------------------------- C16
\* the lines printed between the banners of the final report
PrintedLines ==
    [ i \in 1..Len(Rendered(llm_response_text)) |-> Rendered(llm_response_text)[i].line ]

LinesStarting(prefix) == SelectSeq(PrintedLines, LAMBDA line : startswith(line, prefix))

RequiredSections ==
    { << H2, Lit("Executive Summary") >>, << H2, Lit("Proof of Concept (PoC)") >> }

\* C16: once the narrative report has been printed, its text has exactly one
\* line that begins with "# " and exactly two lines that begin with "## ",
\* the sections Executive Summary and Proof of Concept (PoC), however the
\* report-phase call of call_llm ended.
C16_ReportHeadings ==
    (pc = "done" /\ report = "narrative")
      => /\ Len(LinesStarting(H1)) = 1
         /\ Len(LinesStarting(H2)) = 2
         /\ { LinesStarting(H2)[i] : i \in 1..Len(LinesStarting(H2)) } = RequiredSections


\* --------------------------------------------------------------------- C17
\* the action the reply just returned to run_mission decodes to
DecodedAction == parse_llm_response(llm_response_text)

SentinelDecoded ==
    /\ Returned("run_mission")
    /\ DecodedAction.type = "dict"
    /\ Get(DecodedAction, "command", "") \in Sentinels

\* C17: the step that decodes a sentinel appends its record, with the
\* sentinel as command, an empty result and no spill pointer, and ends the
\* loop; it starts no process, writes no file, and leaves the context and the
\* step counter as they are.  The record stays that way afterwards.
C17_TerminalStepFrame ==
    /\ [][SentinelDecoded
            => /\ pc' = "terminated"
               /\ Len(history') = Len(history) + 1
               /\ SubSeq(history', 1, Len(history)) = history
               /\ history'[Len(history')].step = step
               /\ history'[Len(history')].command = Get(DecodedAction, "command", "")
               /\ history'[Len(history')].result = EmptyStr
               /\ history'[Len(history')].result_summary = EmptyStr
               /\ UNCHANGED << messages, step, files, spawns, exec_how >>]_vars
    /\ [](\A i \in 1..Len(history) :
            history[i].command \in Sentinels
              => history[i].result = EmptyStr /\ history[i].result_summary = EmptyStr)

\* a mission ended by FINISH_SUCCESS at its second step, after one executed
\* command
C17_Witness ==
    /\ pc = "terminated"
    /\ step = 2
    /\ Len(history) = 2
    /\ history[2].command = "FINISH_SUCCESS"
    /\ history[2].result = EmptyStr
    /\ Len(messages) = 4
    /\ spawns = 1

\* --------------------------------------------------------------------- C18
\* the iteration of the while loop that handles the reply goes on to
\* execute_command (and from there to the next iteration)
LoopGoesOn == pc' = "execute"

\* C18: the iteration that handles the reply of step n leaves the loop if and
\* only if the command it decodes is FINISH_SUCCESS or FINISH_FAILURE; with
\* any other reply the loop goes on.
C18_LoopEndsIffSentinel ==
    [][Returned("run_mission") => (~LoopGoesOn <=> SentinelDecoded)]_vars

\* --------------------------------------------------------------------- C19
\* call_llm has returned to run_mission after a last attempt that failed
\* with a transient error
RetriesExhausted == Returned("run_mission") /\ backend = "transient"

\* C19: call_llm returns to run_mission after a transient failure only when
\* all three attempts have failed; the step then ends the mission: its record
\* has the command FINISH_FAILURE and an empty result, no process is started,
\* the context and the step counter stay, and generate_report prints the
\* minimal summary without a model call.
C19_ExhaustionTerminates ==
    /\ [](RetriesExhausted => (tries = max_retries /\ attempt = max_retries - 1))
    /\ [][RetriesExhausted
            => /\ pc' = "terminated"
               /\ Len(history') = Len(history) + 1
               /\ history'[Len(history')].step = step
               /\ history'[Len(history')].command = "FINISH_FAILURE"
               /\ history'[Len(history')].result = EmptyStr
               /\ UNCHANGED << step, messages, files, spawns >>]_vars
    /\ [][(pc = "terminated" /\ LastRecord.command = "FINISH_FAILURE")
            => /\ pc' = "done"
               /\ report' = "minimal"
               /\ UNCHANGED << tries, report_calls, report_messages, history, spawns >>]_vars
    /\ [](report = "minimal" => (report_calls = 0 /\ report_messages = << >>))

\* the second step's model call failed three times after a first step that
\* ran a command; the minimal summary has been printed
C19_Witness ==
    /\ pc = "done"
    /\ report = "minimal"
    /\ report_calls = 0
    /\ Len(history) = 2
    /\ history[1].command = "nmap -F example.com"
    /\ history[2].command = "FINISH_FAILURE"
    /\ history[2].thought = "Critical API connection error. Check internet/DNS."
    /\ spawns = 1

\* --------------------------------------------------------------------- C20
\* the action the payload of line 150 decodes to
BadRequestAction == parse_llm_response(BadRequestPayload)

RECURSIVE RequestSize(_)
\* the number of characters of content in a message list
RequestSize(msgs) ==
    IF msgs = << >> THEN 0 ELSE StrLen(Head(msgs).content) + RequestSize(Tail(msgs))

\* C20: while every backend request has been rejected with 400 the mission is
\* neither terminated nor reported.  The step whose call was rejected decides
\* the echo command of the fallback payload and hands it to execute_command;
\* when that step completes, the context is the rejected request's context
\* plus two messages and has more characters.
C20_BadRequestGoesOn ==
    /\ [](rejected_only => pc \notin { "terminated", "done" })
    /\ [][(Returned("run_mission") /\ backend = "400")
            => /\ pc' = "execute"
               /\ action' = BadRequestAction
               /\ history'[Len(history')].command = Get(BadRequestAction, "command", "")
               /\ spawns' = spawns + 1
               /\ UNCHANGED messages]_vars
    /\ [][(pc = "execute" /\ action = BadRequestAction /\ step' = step + 1)
            => /\ Len(messages') = Len(messages) + 2
               /\ SubSeq(messages', 1, Len(messages)) = messages
               /\ RequestSize(messages') > RequestSize(messages)
               /\ pc' = "call_llm"]_vars

\* two steps in a row were rejected with 400; both ran the echo command and
\* the context has grown by four messages
C20_Witness ==
    /\ rejected_only
    /\ pc = "call_llm"
    /\ step = 3
    /\ Len(history) = 2
    /\ history[1].command = Get(BadRequestAction, "command", "")
    /\ history[2].command = Get(BadRequestAction, "command", "")
    /\ Len(messages) = 6
    /\ spawns = 2

\* --------------------------------------------------------------------- C21
Least(S) == CHOOSE x \in S : \A y \in S : x <= y

\* the positions at which a fence with the tag json opens
JsonOpenings(s) ==
    { i \in 1..(Len(s) - 1) : s[i] = Fence /\ s[i + 1] = Tag("json") }

\* the positions at which a fence with any language tag opens a block that a
\* later fence closes
TaggedOpenings(s) ==
    { i \in 1..(Len(s) - 1) :
        s[i] = Fence /\ s[i + 1].t = "tag" /\ \E j \in (i + 2)..Len(s) : s[j] = Fence }

\* the text after the tag of the fence opening at i, up to the next fence (to
\* the end of s when no fence follows)
Enclosed(s, i) ==
    LET closing == { j \in (i + 2)..Len(s) : s[j] = Fence }
    IN SubSeq(s, i + 2, IF closing = {} THEN Len(s) ELSE Least(closing) - 1)

\* the trimmed text s starts and ends with a fence
Wrapped(s) == Strip(s) # << >> /\ Head(Strip(s)) = Fence /\ Strip(s)[Len(Strip(s))] = Fence

\* the trimmed text s without its first and last three characters
Inside(s) == SubSeq(Strip(s), 2, Len(Strip(s)) - 1)

\* what is claimed to be returned when the fences in Openings(content) count
\* as the language-tagged ones
PostProcessed(Openings(_)) ==
    IF Openings(content) # {}
    THEN Strip(Enclosed(content, Least(Openings(content))))
    ELSE IF Wrapped(content) THEN Strip(Inside(content))
    ELSE content

\* C21 as stated: a fence with any language tag is extracted, else a wrapped
\* reply is unwrapped, else the reply is returned unchanged.
C21_AnyTagExtracted ==
    pc = "returned" => llm_response_text = PostProcessed(TaggedOpenings)

\* C21: if the reply contains a fence tagged json, the returned text is the
\* trimmed text between the first such opening and the next fence (the rest
\* of the reply when there is none); otherwise, if the trimmed reply starts
\* and ends with a fence, it is the trimmed reply without its first and last
\* three characters, trimmed again, so that any other language tag stays in
\* the text; otherwise it is the reply unchanged.
C21_JsonTagExtracted ==
    /\ pc = "returned" => llm_response_text = PostProcessed(JsonOpenings)
    /\ (pc = "returned" /\ JsonOpenings(content) = {} /\ Wrapped(content)
          /\ Len(Strip(content)) > 2 /\ Strip(content)[2].t = "tag")
         => (llm_response_text # << >> /\ Head(llm_response_text) = Strip(content)[2])

\* a reply with prose around a json fence has been cut down to the document
\* inside the fence
C21_Witness ==
    /\ pc = "returned"
    /\ content = << Prose, Fence, Tag("json"), Doc(ActScan), Fence >>
    /\ llm_response_text = << Doc(ActScan) >>

\* a reply wrapped in a python fence has come back with its tag
C21_WitnessOtherTag ==
    /\ pc = "returned"
    /\ content = << Fence, Tag("python"), WS, Doc(ActScan), Fence >>
    /\ llm_response_text = << Tag("python"), WS, Doc(ActScan) >>

=============================================================================
